---- MODULE Spec2Model ----
(***************************************************************************)
(* The synchronisation and transaction-construction core exported by      *)
(* src/rust/src/lib.rs (the zcashlc_* C interface of the light client).    *)
(*                                                                         *)
(* Two stores are modelled: the Block Cache (cache, utxos), written only   *)
(* by the host, and the Wallet Ledger (ledger), written only by the core.  *)
(* The exported functions of lib.rs are the actions.  The functions they   *)
(* call in the crates zcash_client_backend / zcash_client_sqlite           *)
(* (validate_chain, scan_cached_blocks, rewind_to_height, transactionally, *)
(* get_target_and_anchor_heights, ...) are not part of lib.rs; they are    *)
(* modelled from their contract in the specification and named so in the   *)
(* model map.                                                              *)
(*                                                                         *)
(* Heights and amounts are scaled down: the Sapling activation height is   *)
(* 1, the fee is 2, the anchor lies 2 blocks below the target height.      *)
(***************************************************************************)
EXTENDS Integers, Sequences, FiniteSets, TLC

\* ---------------------------------------------------------------- bounds
MaxHeight == 3          \* highest block height the host ever caches
MaxUtxos  == 2          \* transparent outputs the host ever records
MaxTx     == 2          \* transactions the wallet ever creates

\* ------------------------------------------------------ program constants
SaplingActivationHeight == 1   \* NETWORK.activation_height(Sapling), scaled
DEFAULT_FEE == 2               \* amount::DEFAULT_FEE, scaled
ANCHOR_OFFSET == 2             \* confirmation depth of the anchor, scaled
NoteValue == DEFAULT_FEE + 1   \* value of the note a block pays the account

Heights == 1..MaxHeight
Hashes  == {1, 2}
NoBlock == [hash |-> 0, prev |-> 0]
Blocks  == [hash : Hashes, prev : Hashes]

VARIABLES
    cache,    \* Block Cache: height -> compact block (NoBlock when absent)
    utxos,    \* Block Cache: transparent outputs of the derived address
    ledger,   \* Wallet Ledger: blocks, notes, witnesses, transactions, sent notes
    last,     \* the last call of the host: operation, arguments, return value
    calls,    \* construct-and-commit calls in flight: what each has built
    heap,     \* allocations the core handed out and nobody has released
    checkpoint \* history: the height zcashlc_init_blocks_table last accepted

vars == <<cache, utxos, ledger, last, calls, heap, checkpoint>>

\* no checkpoint was accepted so far
NoCheckpoint == [some |-> FALSE, height |-> 0]

\* threads of the host that may each be inside a construct-and-commit call
Callers == {1, 2}

\* ------------------------------------------------------------- helpers
Max(S) == CHOOSE x \in S : \A y \in S : y <= x
Min(S) == CHOOSE x \in S : \A y \in S : x <= y

RECURSIVE SumValues(_)
SumValues(S) ==
    IF S = {} THEN 0
    ELSE LET x == CHOOSE y \in S : TRUE IN x.value + SumValues(S \ {x})

\* Result<T, ()> of catch_panic, and the two unwrappers of lib.rs
Ok(v)  == [ok |-> TRUE, value |-> v]
Err    == [ok |-> FALSE, value |-> 0]

unwrap_exc_or(exc, def) == IF exc.ok THEN exc.value ELSE def

\* ffi_helpers::Nullable::NULL of the integer types is 0
unwrap_exc_or_null(exc) == IF exc.ok THEN exc.value ELSE 0

\* `x as i32` of a u32: the values above i32::MAX wrap to negative ones
I32Max == 2147483647
U32AsI32(x) == IF x <= I32Max THEN x ELSE (x - I32Max) - I32Max - 2

\* BlockHeight::try_from(i32): Err for a negative value
BlockHeightTryFrom(h) == IF h >= 0 THEN Ok(h) ELSE Err

\* ------------------------------------------------------- the two stores
EmptyLedger ==
    [schema   |-> TRUE,                   \* the tables exist
     accounts |-> 1,                      \* rows of the accounts table
     blocks   |-> [h \in Heights |-> 0],  \* hash of the block row, 0 when absent
     far      |-> {},                     \* block rows at heights beyond Heights
     notes    |-> {},
     wits     |-> {},
     txs      |-> {},
     sent     |-> {}]

\* the Ledger's file before zcashlc_init_data_database has run
FreshStore == [EmptyLedger EXCEPT !.schema = FALSE, !.accounts = 0]

CachedHeights(c) == {h \in Heights : c[h].hash # 0}

ScannedHeights(l) == {h \in Heights : l.blocks[h] # 0}

\* WalletRead::block_height_extrema: None (here <<0, 0>>) for an empty table
HasBlocks(l) == ScannedHeights(l) # {}
MinHeight(l) == IF HasBlocks(l) THEN Min(ScannedHeights(l)) ELSE 0
Watermark(l) == IF HasBlocks(l) THEN Max(ScannedHeights(l)) ELSE 0

\* WalletRead::get_max_height_hash: None, or the tip (height, hash)
get_max_height_hash(l) ==
    IF HasBlocks(l)
    THEN [some |-> TRUE, height |-> Watermark(l), hash |-> l.blocks[Watermark(l)]]
    ELSE [some |-> FALSE, height |-> 0, hash |-> 0]

\* Row reference of the transaction mined in block (h, hash), and of the
\* k-th transaction the wallet created
MinedRef(h, x) == 2 * (h - 1) + x
CreatedRef(k)  == 2 * MaxHeight + 2 + k

\* A built transaction: transparent inputs, shielded spends (nullifiers),
\* shielded output values, the builder's height, the height of the branch id
NoRaw == [inputs |-> {}, spends |-> {}, outs |-> <<>>, height |-> 0, branch |-> 0]

\* a caller that is in no construct-and-commit call
Idle == [stage |-> "idle", account |-> 0, value |-> 0, tx |-> NoRaw]

TxMined(l, ref) == \E t \in l.txs : t.ref = ref /\ t.block # 0

\* ------------------------------------------------ chain validation (4.1)
ChainOk            == [kind |-> "Ok", height |-> 0]
InvalidChain(h)    == [kind |-> "InvalidChain", height |-> h]
OtherError         == [kind |-> "Other", height |-> 0]

\* BlockSource::with_blocks walk of validate_chain: cached blocks above
\* prev_height in ascending height order, first failure returned
RECURSIVE ValidateWalk(_, _, _)
ValidateWalk(c, prev_height, prev_hash) ==
    LET above == {k \in CachedHeights(c) : k > prev_height} IN
    IF above = {} THEN ChainOk
    ELSE LET cur == Min(above) IN
         IF cur # prev_height + 1 THEN InvalidChain(prev_height + 1)
         ELSE IF prev_hash # 0 /\ c[cur].prev # prev_hash THEN InvalidChain(cur)
         ELSE ValidateWalk(c, cur, c[cur].hash)

validate_chain(c, validate_from) ==
    IF validate_from.some
    THEN ValidateWalk(c, validate_from.height, validate_from.hash)
    ELSE ValidateWalk(c, SaplingActivationHeight - 1, 0)

\* lib.rs 657-668: the result of validate_chain as the closure's result
ValidateResult(val_res) ==
    CASE val_res.kind = "Ok"           -> Ok(-1)
      [] val_res.kind = "InvalidChain" -> Ok(U32AsI32(val_res.height))
      [] OTHER                         -> Err

ValidateFaults == {"none", "open", "max_height_hash", "read_cache"}

\* Variant: validation starts below the activation height whatever the
\* Ledger's tip is
ValidateClosure_NoTip(c, l, fault) ==
    IF fault \in {"open", "max_height_hash"} THEN Err
    ELSE ValidateResult(IF fault = "read_cache" THEN OtherError
                        ELSE validate_chain(c, [some |-> FALSE, height |-> 0, hash |-> 0]))

\* lib.rs 647-670: the closure of zcashlc_validate_combined_chain
ValidateClosure(c, l, fault) ==
    IF fault \in {"open", "max_height_hash"} THEN Err
    ELSE ValidateResult(IF fault = "read_cache" THEN OtherError
                        ELSE validate_chain(c, get_max_height_hash(l)))

\* Variant: the closure's failure is unwrapped to -1, as the balance and
\* transaction functions do
zcashlc_validate_combined_chain_ErrMinusOne(fault) ==
    /\ last' = [op |-> "validate", arg |-> 0,
                before |-> Watermark(ledger), stage |-> "", tx |-> NoRaw,
                ret |-> unwrap_exc_or(ValidateClosure(cache, ledger, fault), -1)]
    /\ UNCHANGED <<cache, utxos, ledger, calls, heap, checkpoint>>

\* Variant: on a previous-hash mismatch at the Ledger's tip the cache is
\* believed and the Ledger's stored hash overwritten
zcashlc_validate_combined_chain_Heal(fault) ==
    LET ret == unwrap_exc_or_null(ValidateClosure(cache, ledger, fault)) IN
    /\ last' = [op |-> "validate", arg |-> 0,
                before |-> Watermark(ledger), stage |-> "", tx |-> NoRaw,
                ret |-> ret]
    /\ ledger' = IF HasBlocks(ledger) /\ ret = Watermark(ledger) + 1
                    /\ ret \in CachedHeights(cache)
                 THEN [ledger EXCEPT !.blocks[Watermark(ledger)] = cache[ret].prev]
                 ELSE ledger
    /\ UNCHANGED <<cache, utxos, calls, heap, checkpoint>>

\* lib.rs 641-671
zcashlc_validate_combined_chain(fault) ==
    /\ last' = [op |-> "validate", arg |-> 0,
                before |-> Watermark(ledger), stage |-> "", tx |-> NoRaw,
                ret |-> unwrap_exc_or_null(ValidateClosure(cache, ledger, fault))]
    /\ UNCHANGED <<cache, utxos, ledger, calls, heap, checkpoint>>

\* ------------------------------------------------------- scanning (4.2)
\* Nullifiers scan_block looks for: of the notes not spent in a mined block
TrackedNullifiers(l) ==
    {n.nf : n \in {m \in l.notes : m.spent = 0 \/ ~TxMined(l, m.spent)}}

\* The unit of work of one block: block row, transaction row, spends marked,
\* note received, witnesses of every note advanced to this height
ApplyBlock(l, h, b) ==
    LET receives == b.hash = 1
        spends   == b.hash = 2 /\ (h - 1) \in TrackedNullifiers(l)
        ref      == MinedRef(h, b.hash)
        txs1     == IF receives \/ spends
                    THEN {t \in l.txs : t.ref # ref}
                         \cup {[ref |-> ref, block |-> h, created |-> FALSE, raw |-> FALSE]}
                    ELSE l.txs
        notes1   == IF spends
                    THEN {IF n.nf = h - 1 THEN [n EXCEPT !.spent = ref] ELSE n
                          : n \in l.notes}
                    ELSE l.notes
        notes2   == IF receives
                    THEN {n \in notes1 : n.nf # h}
                         \cup {[nf |-> h, value |-> NoteValue, height |-> h, spent |-> 0]}
                    ELSE notes1
    IN [l EXCEPT !.blocks[h] = b.hash,
                 !.txs = txs1,
                 !.notes = notes2,
                 !.wits = l.wits \cup {<<n.nf, h>> : n \in notes2}]

\* scan_cached_blocks: cached blocks above last_height in ascending order;
\* each must be last_height + 1; a store failure at height failAt rolls that
\* block's unit of work back and ends the scan
RECURSIVE ScanWalk(_, _, _, _)
ScanWalk(c, l, last_height, failAt) ==
    LET above == {k \in CachedHeights(c) : k > last_height} IN
    IF above = {} THEN [ledger |-> l, res |-> ChainOk]
    ELSE LET cur == Min(above) IN
         IF cur # last_height + 1
         THEN [ledger |-> l, res |-> InvalidChain(last_height + 1)]
         ELSE IF cur = failAt THEN [ledger |-> l, res |-> OtherError]
         ELSE ScanWalk(c, ApplyBlock(l, cur, c[cur]), cur, failAt)

\* Variant: the block row is written outside the block's unit of work, so a
\* store failure leaves the row of the failing block behind
scan_cached_blocks_RowFirst(c, l, failAt) ==
    LET r == ScanWalk(c, l,
                      IF HasBlocks(l) THEN Watermark(l) ELSE SaplingActivationHeight - 1,
                      failAt)
    IN IF r.res.kind = "Other"
       THEN [r EXCEPT !.ledger.blocks[failAt] = c[failAt].hash]
       ELSE r

\* Variant: every scan starts at the activation height, whatever the Ledger
\* holds
scan_cached_blocks_FromActivation(c, l, failAt) ==
    ScanWalk(c, l, SaplingActivationHeight - 1, failAt)

scan_cached_blocks(c, l, failAt) ==
    ScanWalk(c, l,
             IF HasBlocks(l) THEN Watermark(l) ELSE SaplingActivationHeight - 1,
             failAt)

\* Variant: the scan's error is dropped
ScanResult_AlwaysOk(res) == Ok(1)

\* lib.rs 725-728
ScanResult(res) == IF res.kind = "Ok" THEN Ok(1) ELSE Err

\* Variant: a scan that fails on the chain drops the Ledger's tip block itself
\* instead of leaving the rollback to the caller
zcashlc_scan_blocks_AutoRollback(fault, failAt) ==
    LET scan == scan_cached_blocks(cache, ledger, failAt)
        exc  == IF fault = "open" THEN Err ELSE ScanResult(scan.res)
    IN /\ ledger' = IF fault = "open" THEN ledger
                    ELSE IF scan.res.kind = "InvalidChain" /\ HasBlocks(scan.ledger)
                         THEN [scan.ledger EXCEPT !.blocks[Watermark(scan.ledger)] = 0]
                    ELSE scan.ledger
       /\ last' = [op |-> "scan", arg |-> 0,
                   before |-> Watermark(ledger), stage |-> "", tx |-> NoRaw,
                   ret |-> unwrap_exc_or_null(exc)]
       /\ UNCHANGED <<cache, utxos, calls, heap, checkpoint>>

\* Variant: a scan removes from the cache the blocks it has applied
zcashlc_scan_blocks_ConsumeCache(fault, failAt) ==
    LET scan == scan_cached_blocks(cache, ledger, failAt)
        exc  == IF fault = "open" THEN Err ELSE ScanResult(scan.res)
    IN /\ ledger' = IF fault = "open" THEN ledger ELSE scan.ledger
       /\ cache' = [h \in Heights |->
                      IF ledger'.blocks[h] # 0 /\ ledger.blocks[h] = 0 THEN NoBlock
                      ELSE cache[h]]
       /\ last' = [op |-> "scan", arg |-> 0,
                   before |-> Watermark(ledger), stage |-> "", tx |-> NoRaw,
                   ret |-> unwrap_exc_or_null(exc)]
       /\ UNCHANGED <<utxos, calls, heap, checkpoint>>

\* lib.rs 715-731; fault "open": a store cannot be opened
zcashlc_scan_blocks(fault, failAt) ==
    LET scan == scan_cached_blocks(cache, ledger, failAt)
        exc  == IF fault = "open" THEN Err ELSE ScanResult(scan.res)
    IN /\ ledger' = IF fault = "open" THEN ledger ELSE scan.ledger
       /\ last' = [op |-> "scan", arg |-> 0,
                   before |-> Watermark(ledger), stage |-> "", tx |-> NoRaw,
                   ret |-> unwrap_exc_or_null(exc)]
       /\ UNCHANGED <<cache, utxos, calls, heap, checkpoint>>

\* -------------------------------------------------------- rollback (4.3)
\* WalletWrite::rewind_to_height inside transactionally
rewind_to_height(l, height) ==
    IF height >= Watermark(l) THEN l
    ELSE LET undone == {t.ref : t \in {u \in l.txs : u.block > height}} IN
         [l EXCEPT
            !.blocks = [h \in Heights |-> IF h > height THEN 0 ELSE l.blocks[h]],
            !.notes  = {IF n.spent \in undone THEN [n EXCEPT !.spent = 0] ELSE n
                        : n \in {m \in l.notes : m.height <= height}},
            !.wits   = {w \in l.wits : w[1] <= height /\ w[2] <= height},
            !.txs    = {t \in l.txs : t.block <= height}]

RewindFaults == {"none", "open", "store"}

\* Variant: the closure returns the number of blocks it removed
RewindClosure_Count(l, height, fault) ==
    IF fault = "open" THEN [exc |-> Err, ledger |-> l]
    ELSE IF ~BlockHeightTryFrom(height).ok THEN [exc |-> Err, ledger |-> l]
    ELSE IF fault = "store" THEN [exc |-> Err, ledger |-> l]
    ELSE [exc |-> Ok(Watermark(l) - Watermark(rewind_to_height(l, height))),
          ledger |-> rewind_to_height(l, height)]

\* Variant: rewind_to_height is called without transactionally around it, so
\* a store failure after the first delete leaves the blocks removed
RewindClosure_NotAtomic(l, height, fault) ==
    IF fault = "open" THEN [exc |-> Err, ledger |-> l]
    ELSE IF ~BlockHeightTryFrom(height).ok THEN [exc |-> Err, ledger |-> l]
    ELSE IF fault = "store"
         THEN [exc |-> Err,
               ledger |-> IF height >= Watermark(l) THEN l
                          ELSE [l EXCEPT !.blocks =
                                   [h \in Heights |-> IF h > height THEN 0
                                                      ELSE l.blocks[h]]]]
    ELSE [exc |-> Ok(1), ledger |-> rewind_to_height(l, height)]

\* Variant: the Ledger is rewound to the height below the one asked for
RewindClosure_OneBelow(l, height, fault) ==
    IF fault = "open" THEN [exc |-> Err, ledger |-> l]
    ELSE IF ~BlockHeightTryFrom(height).ok THEN [exc |-> Err, ledger |-> l]
    ELSE IF fault = "store" THEN [exc |-> Err, ledger |-> l]
    ELSE [exc |-> Ok(1), ledger |-> rewind_to_height(l, height - 1)]

\* Variant: the height is handed to rewind_to_height without the conversion
RewindClosure_Unconverted(l, height, fault) ==
    IF fault = "open" THEN [exc |-> Err, ledger |-> l]
    ELSE IF fault = "store" THEN [exc |-> Err, ledger |-> l]
    ELSE [exc |-> Ok(1), ledger |-> rewind_to_height(l, height)]

\* lib.rs 683-696: the closure of zcashlc_rewind_to_height; the result is the
\* pair of the closure's result and the Ledger it leaves
RewindClosure(l, height, fault) ==
    IF fault = "open" THEN [exc |-> Err, ledger |-> l]
    ELSE IF ~BlockHeightTryFrom(height).ok THEN [exc |-> Err, ledger |-> l]
    ELSE IF fault = "store" THEN [exc |-> Err, ledger |-> l]
    ELSE [exc |-> Ok(1), ledger |-> rewind_to_height(l, height)]

zcashlc_rewind_to_height(height, fault) ==
    LET r == RewindClosure(ledger, height, fault) IN
    /\ ledger' = r.ledger
    /\ last' = [op |-> "rewind", arg |-> height,
                before |-> Watermark(ledger), stage |-> "", tx |-> NoRaw,
                ret |-> unwrap_exc_or_null(r.exc)]
    /\ UNCHANGED <<cache, utxos, calls, heap, checkpoint>>

\* ------------------------------------------------ input selection (4.4)
\* WalletRead::get_target_and_anchor_heights: None without a scanned block,
\* else <<target height, anchor height>>
get_target_and_anchor_heights(l) ==
    IF ~HasBlocks(l) THEN [some |-> FALSE, pair |-> <<0, 0>>]
    ELSE LET target_height == Watermark(l) + 1
             sub == IF target_height >= ANCHOR_OFFSET
                    THEN target_height - ANCHOR_OFFSET ELSE 0
         IN [some |-> TRUE, pair |-> <<target_height, Max({sub, MinHeight(l)})>>]

\* The confirmed view of the address's transparent outputs
get_confirmed_utxos_for_address(us, height) == {u \in us : u.height <= height}

\* The notes of the account not marked spent and received at or below the anchor
SpendableNotes(l, anchor) == {n \in l.notes : n.spent = 0 /\ n.height <= anchor}

\* select_spendable_notes: in note order, the shortest prefix that covers
\* target_value (all of them when they do not)
RECURSIVE SelectPrefix(_, _, _)
SelectPrefix(S, acc, target_value) ==
    IF S = {} \/ SumValues(acc) >= target_value THEN acc
    ELSE LET n == CHOOSE m \in S : \A k \in S : m.nf <= k.nf
         IN SelectPrefix(S \ {n}, acc \cup {n}, target_value)

select_spendable_notes(l, anchor, target_value) ==
    SelectPrefix(SpendableNotes(l, anchor), {}, target_value)

\* ------------------------------------------------- atomic commit (4.6)
\* Row reference the next created transaction gets
NextRef(l) == CreatedRef(Cardinality({t \in l.txs : t.created}) + 1)

\* put_tx_data stores the raw bytes of the transaction; the row has no block yet
put_tx_data(l, ref) ==
    [l EXCEPT !.txs = @ \cup {[ref |-> ref, block |-> 0, created |-> TRUE, raw |-> TRUE]}]

mark_spent(l, ref, nf) ==
    [l EXCEPT !.notes = {IF n.nf = nf THEN [n EXCEPT !.spent = ref] ELSE n : n \in @}]

RECURSIVE MarkAllSpent(_, _, _)
MarkAllSpent(l, ref, nfs) ==
    IF nfs = {} THEN l
    ELSE LET nf == CHOOSE x \in nfs : TRUE
         IN MarkAllSpent(mark_spent(l, ref, nf), ref, nfs \ {nf})

insert_sent_note(l, ref, idx, account, value) ==
    [l EXCEPT !.sent = @ \cup {[tx |-> ref, idx |-> idx, account |-> account,
                                value |-> value]}]

\* WalletWrite::transactionally: the closure's writes are kept when it
\* returns Ok and rolled back to l when it returns Err
transactionally(l, r) == IF r.ok THEN r ELSE [r EXCEPT !.ledger = l]

\* mark_spent refuses a note that is marked spent under another transaction
\* (4.6 step 2: a constraint violation surfaced as an error)
MarkSpentConflict(l, ref, nfs) ==
    \E n \in l.notes : n.nf \in nfs /\ n.spent # 0 /\ n.spent # ref

\* Variant: the result of mark_spent is dropped instead of propagated with `?`
CommitSteps_IgnoreMarkSpent(l, tx, account, amount, failStep) ==
    LET tx_ref == NextRef(l)
        l1 == put_tx_data(l, tx_ref)
        l2 == MarkAllSpent(l1, tx_ref,
                 {nf \in tx.spends : ~MarkSpentConflict(l1, tx_ref, {nf})})
        l3 == insert_sent_note(l2, tx_ref, 0, account, amount)
    IN IF failStep = "put_tx_data" THEN [ok |-> FALSE, ledger |-> l, ref |-> 0]
       ELSE IF failStep = "insert_sent_note"
            THEN [ok |-> FALSE, ledger |-> l2, ref |-> 0]
       ELSE [ok |-> TRUE, ledger |-> l3, ref |-> tx_ref]

\* Variant: the commit unit does not mark the spent notes
CommitSteps_NoMarkSpent(l, tx, account, amount, failStep) ==
    LET tx_ref == NextRef(l)
        l1 == put_tx_data(l, tx_ref)
        l3 == insert_sent_note(l1, tx_ref, 0, account, amount)
    IN IF failStep = "put_tx_data" THEN [ok |-> FALSE, ledger |-> l, ref |-> 0]
       ELSE IF tx.spends # {} /\ failStep = "mark_spent"
            THEN [ok |-> FALSE, ledger |-> l1, ref |-> 0]
       ELSE IF failStep = "insert_sent_note"
            THEN [ok |-> FALSE, ledger |-> l1, ref |-> 0]
       ELSE [ok |-> TRUE, ledger |-> l3, ref |-> tx_ref]

\* lib.rs 1190-1217: the closure given to transactionally; failStep names the
\* store call that fails.  The result holds the Ledger as the closure left it.
CommitSteps(l, tx, account, amount, failStep) ==
    LET tx_ref == NextRef(l)
        l1 == put_tx_data(l, tx_ref)
        l2 == MarkAllSpent(l1, tx_ref, tx.spends)
        l3 == insert_sent_note(l2, tx_ref, 0, account, amount)
    IN IF failStep = "put_tx_data" THEN [ok |-> FALSE, ledger |-> l, ref |-> 0]
       ELSE IF tx.spends # {} /\ (failStep = "mark_spent"
                                  \/ MarkSpentConflict(l1, tx_ref, tx.spends))
            THEN [ok |-> FALSE, ledger |-> l1, ref |-> 0]
       ELSE IF failStep = "insert_sent_note"
            THEN [ok |-> FALSE, ledger |-> l2, ref |-> 0]
       ELSE [ok |-> TRUE, ledger |-> l3, ref |-> tx_ref]

\* The same closure run without transactionally around it
ShieldCommit_NoRollback(l, tx, account, amount, failStep) ==
    CommitSteps(l, tx, account, amount, failStep)

\* Variant: the reference put_tx_data returned is handed back although a
\* later step failed and the unit was rolled back
ShieldCommit_KeepRef(l, tx, account, amount, failStep) ==
    LET r == transactionally(l, CommitSteps(l, tx, account, amount, failStep))
    IN IF r.ok \/ failStep = "put_tx_data" THEN r
       ELSE [r EXCEPT !.ok = TRUE, !.ref = NextRef(l)]

\* lib.rs 1189-1218
ShieldCommit(l, tx, account, amount, failStep) ==
    transactionally(l, CommitSteps(l, tx, account, amount, failStep))

\* ------------------------------------------- transaction building (4.5)
CommitFaults == {"put_tx_data", "mark_spent", "insert_sent_note"}
BuildFaults  == {"none", "open", "build", "update_ops"} \cup CommitFaults

Failed(l, stage) == [exc |-> Err, ledger |-> l, stage |-> stage, tx |-> NoRaw]

\* Variant: a total equal to the fee passes
InsufficientFunds_Strict(fee, total_amount) == fee > total_amount

\* lib.rs 1123
InsufficientFunds(fee, total_amount) == fee >= total_amount

\* Variant: the fee is not taken off the shielded amount
AmountToShield_NoFee(total_amount, fee) == total_amount

\* Variant: one unit less than the total after the fee is shielded
AmountToShield_LessOne(total_amount, fee) == total_amount - fee - 1

\* lib.rs 1127
AmountToShield(total_amount, fee) == total_amount - fee

\* Builder::build: what the inputs hold above the outputs and the builder's
\* fee goes to the address given to send_change_to
BuilderChange(tx) == SumValues(tx.inputs) - tx.outs[1] - DEFAULT_FEE

\* lib.rs 1104-1113: the transparent outputs shield_funds selects
SelectedUtxos(us, anchor_and_height) ==
    LET latest_anchor == anchor_and_height[1]
    IN get_confirmed_utxos_for_address(us, latest_anchor)

\* lib.rs 1131-1171: the transaction the builder is asked for
ShieldTx(sel, amount_to_shield, anchor_and_height) ==
    LET latest_scanned_height == anchor_and_height[2]
    IN [inputs |-> sel, spends |-> {}, outs |-> <<amount_to_shield>>,
        height |-> latest_scanned_height, branch |-> anchor_and_height[2]]

\* lib.rs 1038-1219
shield_funds(us, l, account, fault) ==
    LET ah == get_target_and_anchor_heights(l) IN
    IF ~ah.some THEN Failed(l, "anchor")
    ELSE LET sel == SelectedUtxos(us, ah.pair)
             total_amount == SumValues(sel)
             fee == DEFAULT_FEE
         IN IF InsufficientFunds(fee, total_amount) THEN Failed(l, "funds")
            ELSE IF fault = "build" THEN Failed(l, "build")
            ELSE IF fault = "update_ops" THEN Failed(l, "commit")
            ELSE LET amount_to_shield == AmountToShield(total_amount, fee)
                     tx == ShieldTx(sel, amount_to_shield, ah.pair)
                     done == ShieldCommit(l, tx, account, amount_to_shield, fault)
                 IN IF done.ok
                    THEN [exc |-> Ok(done.ref), ledger |-> done.ledger, stage |-> "done",
                          tx |-> tx]
                    ELSE [Failed(done.ledger, "commit") EXCEPT !.tx = tx]

CreatedCount(l) == Cardinality({t \in l.txs : t.created})

\* lib.rs 1235-1256
zcashlc_shield_funds(account, fault) ==
    LET r == IF fault = "open" THEN Failed(ledger, "open")
             ELSE IF account < 0 THEN Failed(ledger, "args")
             ELSE shield_funds(utxos, ledger, account, fault)
    IN /\ CreatedCount(ledger) < MaxTx
       /\ ledger' = r.ledger
       /\ last' = [op |-> "shield", arg |-> account, before |-> Watermark(ledger),
                   stage |-> r.stage, tx |-> r.tx, ret |-> unwrap_exc_or(r.exc, -1)]
       /\ UNCHANGED <<cache, utxos, calls, heap, checkpoint>>

\* create_spend_to_address: notes of the account, one output, the fixed fee
create_spend_to_address(l, account, value, fault) ==
    LET ah == get_target_and_anchor_heights(l) IN
    IF ~ah.some THEN Failed(l, "anchor")
    ELSE LET target_value == value + DEFAULT_FEE
             sel == select_spendable_notes(l, ah.pair[2], target_value)
         IN IF SumValues(sel) < target_value THEN Failed(l, "funds")
            ELSE IF fault = "build" THEN Failed(l, "build")
            ELSE IF fault = "update_ops" THEN Failed(l, "commit")
            ELSE LET tx == [inputs |-> {}, spends |-> {n.nf : n \in sel},
                            outs |-> <<value>>, height |-> ah.pair[1],
                            branch |-> ah.pair[1]]
                     done == transactionally(l, CommitSteps(l, tx, account, value, fault))
                 IN IF done.ok
                    THEN [exc |-> Ok(done.ref), ledger |-> done.ledger, stage |-> "done",
                          tx |-> tx]
                    ELSE [Failed(done.ledger, "commit") EXCEPT !.tx = tx]

\* Amount::from_i64: Err outside -MAX_MONEY..MAX_MONEY (MAX_MONEY scaled)
MAX_MONEY == 8
AmountFromI64(v) == IF v >= -MAX_MONEY /\ v <= MAX_MONEY THEN Ok(v) ELSE Err

\* Variant: the amount is converted but its sign is not looked at
zcashlc_create_to_address_NoSignCheck(account, value, fault) ==
    LET r == IF fault = "open" THEN Failed(ledger, "open")
             ELSE IF account < 0 THEN Failed(ledger, "args")
             ELSE IF ~AmountFromI64(value).ok THEN Failed(ledger, "args")
             ELSE create_spend_to_address(ledger, account, value, fault)
    IN /\ CreatedCount(ledger) < MaxTx
       /\ ledger' = r.ledger
       /\ last' = [op |-> "create", arg |-> value, before |-> Watermark(ledger),
                   stage |-> r.stage, tx |-> r.tx, ret |-> unwrap_exc_or(r.exc, -1)]
       /\ UNCHANGED <<cache, utxos, calls, heap, checkpoint>>

\* lib.rs 775-834
zcashlc_create_to_address(account, value, fault) ==
    LET r == IF fault = "open" THEN Failed(ledger, "open")
             ELSE IF account < 0 THEN Failed(ledger, "args")
             ELSE IF ~AmountFromI64(value).ok THEN Failed(ledger, "args")
             ELSE IF value < 0 THEN Failed(ledger, "args")
             ELSE create_spend_to_address(ledger, account, value, fault)
    IN /\ CreatedCount(ledger) < MaxTx
       /\ ledger' = r.ledger
       /\ last' = [op |-> "create", arg |-> value, before |-> Watermark(ledger),
                   stage |-> r.stage, tx |-> r.tx, ret |-> unwrap_exc_or(r.exc, -1)]
       /\ UNCHANGED <<cache, utxos, calls, heap, checkpoint>>

\* ------------------------------------------------------------- queries
\* WalletRead::get_balance: the unspent notes of the account
get_balance(l, account) == SumValues({n \in l.notes : n.spent = 0})

\* Variant: the balance at the anchor counts the notes marked spent as well
get_balance_at_IgnoreSpent(l, account, anchor) ==
    SumValues({n \in l.notes : n.height <= anchor})

\* WalletRead::get_balance_at: the unspent notes received at or below anchor
get_balance_at(l, account, anchor) ==
    SumValues({n \in l.notes : n.spent = 0 /\ n.height <= anchor})

QueryFaults == {"none", "open", "anchor", "store"}

\* the result of a call that ends at `stage` with exc
Query(exc, stage) == [exc |-> exc, stage |-> stage]

\* lib.rs 521-538
zcashlc_get_balance(account, fault) ==
    LET r == IF fault = "open" THEN Query(Err, "open")
             ELSE IF account < 0 THEN Query(Err, "args")
             ELSE IF fault = "store" THEN Query(Err, "query")
             ELSE Query(Ok(get_balance(ledger, account)), "done")
    IN /\ last' = [op |-> "balance", arg |-> account, before |-> Watermark(ledger),
                   stage |-> r.stage, tx |-> NoRaw, ret |-> unwrap_exc_or(r.exc, -1)]
       /\ UNCHANGED <<cache, utxos, ledger, calls, heap, checkpoint>>

\* Variant: a missing anchor counts as height 0 and the balance there is
\* returned
VerifiedBalance_ZeroWithoutAnchor(l, account, fault) ==
    LET opt_anchor == get_target_and_anchor_heights(l) IN
    IF fault = "anchor" THEN Query(Err, "anchor")
    ELSE IF fault = "store" THEN Query(Err, "query")
    ELSE Query(Ok(get_balance_at(l, account,
                    IF opt_anchor.some THEN opt_anchor.pair[2] ELSE 0)), "done")

\* Variant: the first height of the pair (the target height) is taken as the
\* anchor
VerifiedBalance_AtTarget(l, account, fault) ==
    LET opt_anchor == get_target_and_anchor_heights(l) IN
    IF fault = "anchor" THEN Query(Err, "anchor")
    ELSE IF ~opt_anchor.some THEN Query(Err, "anchor")
    ELSE IF fault = "store" THEN Query(Err, "query")
    ELSE Query(Ok(get_balance_at(l, account, opt_anchor.pair[1])), "done")

\* lib.rs 555-570: anchor of the Ledger, then the balance at the anchor
VerifiedBalance(l, account, fault) ==
    LET opt_anchor == get_target_and_anchor_heights(l) IN
    IF fault = "anchor" THEN Query(Err, "anchor")
    ELSE IF ~opt_anchor.some THEN Query(Err, "anchor")
    ELSE IF fault = "store" THEN Query(Err, "query")
    ELSE Query(Ok(get_balance_at(l, account, opt_anchor.pair[2])), "done")

\* lib.rs 543-572
zcashlc_get_verified_balance(account, fault) ==
    LET r == IF fault = "open" THEN Query(Err, "open")
             ELSE IF account < 0 THEN Query(Err, "args")
             ELSE VerifiedBalance(ledger, account, fault)
    IN /\ last' = [op |-> "verified_balance", arg |-> account,
                   before |-> Watermark(ledger),
                   stage |-> r.stage, tx |-> NoRaw, ret |-> unwrap_exc_or(r.exc, -1)]
       /\ UNCHANGED <<cache, utxos, ledger, calls, heap, checkpoint>>

\* --------------------------------------------- memory handed to the host
MaxAllocs == 2
AllocIds == 1..MaxAllocs
\* the pointer a new allocation gets; pointers are never 0 (null)
NewPtr(hp) == Min({k \in AllocIds : \A a \in hp : a.id # k})
\* one C string the host owns
StringAlloc(ptr) == [id |-> ptr, kind |-> "string", len |-> 1, cap |-> 1]

\* WalletRead::get_address: the address of an account of the accounts table
get_address(l, account) ==
    IF account < l.accounts THEN [some |-> TRUE] ELSE [some |-> FALSE]

\* lib.rs 446-475
zcashlc_get_address(account, fault) ==
    LET r == IF fault = "open" THEN Query(Err, "open")
             ELSE IF account < 0 THEN Query(Err, "args")
             ELSE IF fault = "store" THEN Query(Err, "query")
             ELSE IF ~get_address(ledger, account).some THEN Query(Err, "query")
             ELSE Query(Ok(NewPtr(heap)), "done")
    IN /\ Cardinality(heap) < MaxAllocs
       /\ heap' = IF r.exc.ok THEN heap \cup {StringAlloc(r.exc.value)} ELSE heap
       /\ last' = [op |-> "address", arg |-> account, before |-> Watermark(ledger),
                   stage |-> r.stage, tx |-> NoRaw, ret |-> unwrap_exc_or_null(r.exc)]
       /\ UNCHANGED <<cache, utxos, ledger, calls, checkpoint>>

\* lib.rs 848-856; s is null (0) or a string the host owns
zcashlc_string_free(s) ==
    /\ s = 0 \/ StringAlloc(s) \in heap
    /\ heap' = IF s = 0 THEN heap ELSE heap \ {StringAlloc(s)}
    /\ last' = [op |-> "string_free", arg |-> s, before |-> 0, stage |-> "",
                tx |-> NoRaw, ret |-> 0]
    /\ UNCHANGED <<cache, utxos, ledger, calls, checkpoint>>

\* ------------------------------------------------- setting up the Ledger
\* The outcome of a closure run under catch_panic: its Result, the Ledger and
\* the allocations it leaves, and the step it ended at ("panic": it unwound)
Outcome(exc, l, hp, stage) == [exc |-> exc, ledger |-> l, heap |-> hp, stage |-> stage]

\* ffi_helpers catch_panic turns an unwinding closure into Err
catch_panic(o) == IF o.stage = "panic" THEN [o EXCEPT !.exc = Err] ELSE o

\* the record `last` of a set-up call
SetupCall(op, arg, o, ret) ==
    [op |-> op, arg |-> arg, before |-> 0, stage |-> o.stage, tx |-> NoRaw, ret |-> ret]

\* `x as u32` of an i32: the same 32 bits read as unsigned, written as the
\* top bit and the low 31 bits
I32AsU32(x) ==
    IF x >= 0 THEN [top |-> 0, low |-> x] ELSE [top |-> 1, low |-> (x + I32Max) + 1]

InitDbFaults == {"none", "open", "init"}

\* lib.rs 141-150: for_path, then init_wallet_db whose Result is mapped to 1
InitDataDatabase(l, fault) ==
    IF fault = "open" THEN Outcome(Err, l, {}, "open")
    ELSE IF fault = "init" THEN Outcome(Ok(1), l, {}, "init")
    ELSE Outcome(Ok(1), [l EXCEPT !.schema = TRUE], {}, "done")

\* lib.rs 138-152
zcashlc_init_data_database(fault) ==
    LET o == catch_panic(InitDataDatabase(ledger, fault)) IN
    /\ ledger' = o.ledger
    /\ last' = SetupCall("init_db", 0, o, unwrap_exc_or_null(o.exc))
    /\ UNCHANGED <<cache, utxos, calls, heap, checkpoint>>

\* init_blocks_table of the store: one block row, only into an empty table
BlocksTableEmpty(l) == ~HasBlocks(l) /\ l.far = {}
init_blocks_table(l, height, hash) ==
    IF ~l.schema \/ ~BlocksTableEmpty(l) THEN [ok |-> FALSE, ledger |-> l]
    ELSE IF height.top = 0 /\ height.low \in Heights
         THEN [ok |-> TRUE, ledger |-> [l EXCEPT !.blocks[height.low] = hash]]
    ELSE [ok |-> TRUE, ledger |-> [l EXCEPT !.far = {[height |-> height, hash |-> hash]}]]

HexArgs == {"ok", "bad_hash", "bad_tree"}

\* lib.rs 423-438: the hex strings are decoded with unwrap, the height is
\* cast with `as u32`
InitBlocksTable(l, height, hex, fault) ==
    IF fault = "open" THEN Outcome(Err, l, {}, "open")
    ELSE IF hex # "ok" THEN Outcome(Err, l, {}, "panic")
    ELSE LET r == init_blocks_table(l, I32AsU32(height), 1)
         IN Outcome(IF r.ok THEN Ok(1) ELSE Err, r.ledger, {}, IF r.ok THEN "done" ELSE "store")

\* lib.rs 414-440
zcashlc_init_blocks_table(height, hex, fault) ==
    LET o == catch_panic(InitBlocksTable(ledger, height, hex, fault)) IN
    /\ ledger' = o.ledger
    /\ last' = SetupCall("init_blocks", height, o, unwrap_exc_or_null(o.exc))
    /\ checkpoint' = IF o.exc.ok THEN [some |-> TRUE, height |-> height] ELSE checkpoint
    /\ UNCHANGED <<cache, utxos, calls, heap>>

\* BranchId::for_height on the scaled network: Sprout below the Sapling
\* activation height, Canopy from CanopyActivationHeight, written as the i32
\* the branch id is cast to
CanopyActivationHeight == 3
SproutId  == 0
SaplingId == 1991772603
CanopyId  == -369134170
BranchIdForHeight(height) ==
    IF height.top = 1 \/ height.low >= CanopyActivationHeight THEN CanopyId
    ELSE IF height.low >= SaplingActivationHeight THEN SaplingId
    ELSE SproutId

\* lib.rs 837-845
zcashlc_branch_id_for_height(height) ==
    LET o == catch_panic(Outcome(Ok(BranchIdForHeight(I32AsU32(height))), ledger, {}, "done"))
    IN /\ last' = SetupCall("branch_id", height, o, unwrap_exc_or(o.exc, -1))
       /\ UNCHANGED <<cache, utxos, ledger, calls, heap, checkpoint>>

\* ------------------------------------------------ accounts and key vectors
MaxAccounts == 2
\* a vector of len C strings with room for cap pointers, owned by the host
VecAlloc(ptr, len, cap) == [id |-> ptr, kind |-> "vec", len |-> len, cap |-> cap]
\* len C strings released from their CString by into_raw that no vector
\* holds any more
StrandedStrings(ptr, len) == [id |-> ptr, kind |-> "stranded", len |-> len, cap |-> 0]

\* lib.rs 261-273 (and 186-198, 302-314): the strings are moved out with
\* into_raw and collected, the capacity is written through capacity_ret,
\* the vector is forgotten and its pointer returned.  A null capacity_ret
\* makes as_mut().unwrap() panic: the vector is dropped, its strings stay.
KeyVector(l, hp, n, cap, capacity_ret) ==
    IF capacity_ret = "null"
    THEN Outcome(Err, l, IF n > 0 THEN hp \cup {StrandedStrings(NewPtr(hp), n)} ELSE hp,
                 "panic")
    ELSE Outcome(Ok(NewPtr(hp)), l, hp \cup {VecAlloc(NewPtr(hp), n, cap)}, "done")

\* init_accounts_table of the store: n account rows, only into an empty table
init_accounts_table(l, n) ==
    IF ~l.schema \/ l.accounts # 0 THEN [ok |-> FALSE, ledger |-> l]
    ELSE [ok |-> TRUE, ledger |-> [l EXCEPT !.accounts = n]]

\* lib.rs 169-202
InitAccountsTable(l, hp, accounts, cap, capacity_ret, fault) ==
    IF fault = "open" THEN Outcome(Err, l, hp, "open")
    ELSE IF accounts < 0 THEN Outcome(Err, l, hp, "args")
    ELSE LET r == init_accounts_table(l, accounts) IN
         IF ~r.ok THEN Outcome(Err, l, hp, "store")
         ELSE KeyVector(r.ledger, hp, accounts, cap, capacity_ret)

\* lib.rs 160-204; cap: the capacity the collected vector got
zcashlc_init_accounts_table(accounts, cap, capacity_ret, fault) ==
    LET o == catch_panic(InitAccountsTable(ledger, heap, accounts, cap, capacity_ret, fault))
    IN /\ Cardinality(heap) < MaxAllocs
       /\ cap >= accounts
       /\ ledger' = o.ledger
       /\ heap' = o.heap
       /\ last' = SetupCall("init_accounts", accounts, o, unwrap_exc_or_null(o.exc))
       /\ UNCHANGED <<cache, utxos, calls, checkpoint>>

\* lib.rs 215-232: the keys are decoded with unwrap before the table is
\* written
InitAccountsTableWithKeys(l, n, keys, fault) ==
    IF fault = "open" THEN Outcome(Err, l, {}, "open")
    ELSE IF keys = "malformed" THEN Outcome(Err, l, {}, "panic")
    ELSE LET r == init_accounts_table(l, n)
         IN Outcome(IF r.ok THEN Ok(1) ELSE Err, r.ledger, {}, IF r.ok THEN "done" ELSE "store")

\* lib.rs 208-234; the bool it returns is written 1 / 0
zcashlc_init_accounts_table_with_keys(n, keys, fault) ==
    LET o == catch_panic(InitAccountsTableWithKeys(ledger, n, keys, fault)) IN
    /\ ledger' = o.ledger
    /\ last' = SetupCall("init_accounts_keys", n, o, unwrap_exc_or(o.exc, 0))
    /\ UNCHANGED <<cache, utxos, calls, heap, checkpoint>>

\* lib.rs 248-274 and 289-315: the two derive functions differ in the key
\* they encode only
DeriveKeys(l, hp, accounts, cap, capacity_ret) ==
    IF accounts <= 0 THEN Outcome(Err, l, hp, "args")
    ELSE KeyVector(l, hp, accounts, cap, capacity_ret)

\* lib.rs 242-276
zcashlc_derive_extended_spending_keys(accounts, cap, capacity_ret) ==
    LET o == catch_panic(DeriveKeys(ledger, heap, accounts, cap, capacity_ret)) IN
    /\ Cardinality(heap) < MaxAllocs
    /\ cap >= accounts
    /\ heap' = o.heap
    /\ last' = SetupCall("derive_sk", accounts, o, unwrap_exc_or_null(o.exc))
    /\ UNCHANGED <<cache, utxos, ledger, calls, checkpoint>>

\* lib.rs 282-317
zcashlc_derive_extended_full_viewing_keys(accounts, cap, capacity_ret) ==
    LET o == catch_panic(DeriveKeys(ledger, heap, accounts, cap, capacity_ret)) IN
    /\ Cardinality(heap) < MaxAllocs
    /\ cap >= accounts
    /\ heap' = o.heap
    /\ last' = SetupCall("derive_fvk", accounts, o, unwrap_exc_or_null(o.exc))
    /\ UNCHANGED <<cache, utxos, ledger, calls, checkpoint>>

\* lib.rs 860-868: nothing for null; else the vector is rebuilt from
\* (v, len, capacity) and every string and the vector are dropped
VecStringFree(hp, v, len, capacity) ==
    IF v = 0 THEN hp ELSE hp \ {VecAlloc(v, len, capacity)}

\* lib.rs 859-869; the host passes null, or a vector it owns with the length
\* and capacity it was given
zcashlc_vec_string_free(v, len, capacity) ==
    /\ v = 0 \/ VecAlloc(v, len, capacity) \in heap
    /\ heap' = VecStringFree(heap, v, len, capacity)
    /\ last' = [op |-> "vec_string_free", arg |-> v, before |-> 0, stage |-> "",
                tx |-> NoRaw, ret |-> 0]
    /\ UNCHANGED <<cache, utxos, ledger, calls, checkpoint>>

\* ------------------------------------------------ keys and addresses
\* Keys are abstract: a key is known by its kind, the seed and the account
\* index it was derived from.  An encoded string is the human-readable part
\* it was encoded under and the key it carries.
Seeds == {1, 2, 3}
AccountIndices == -1..MaxAccounts
NoText  == [hrp |-> "", data |-> [kind |-> "none", seed |-> 0, account |-> 0]]
\* a string that is no Bech32 encoding at all
Garbage == [hrp |-> "?", data |-> [kind |-> "none", seed |-> 0, account |-> 0]]

hrp_sapling_extended_spending_key     == "secret-extended-key"
hrp_sapling_extended_full_viewing_key == "zxviews"
hrp_sapling_payment_address           == "zs"

\* keys::spending_key(seed, coin_type, account)
spending_key(seed, account) == [kind |-> "extsk", seed |-> seed, account |-> account]
\* ExtendedFullViewingKey::from(&extsk)
ExtendedFullViewingKeyFrom(extsk) == [extsk EXCEPT !.kind = "extfvk"]
\* default_address of a viewing key; a spending key answers through its
\* viewing key
default_address(key) ==
    LET fvk == IF key.kind = "extsk" THEN ExtendedFullViewingKeyFrom(key) ELSE key
    IN [kind |-> "addr", seed |-> fvk.seed, account |-> fvk.account]

\* the Bech32 encoders and decoders of zcash_client_backend::encoding: a
\* decoder yields Err for a string that is no encoding, Ok(None) for one
\* under another human-readable part, Ok(Some(key)) otherwise
Encode(hrp, data) == [hrp |-> hrp, data |-> data]
Decode(hrp, kind, str) ==
    IF str = Garbage \/ str = NoText THEN [ok |-> FALSE, some |-> FALSE, key |-> NoText.data]
    ELSE IF str.hrp # hrp \/ str.data.kind # kind
         THEN [ok |-> TRUE, some |-> FALSE, key |-> NoText.data]
    ELSE [ok |-> TRUE, some |-> TRUE, key |-> str.data]
encode_extended_spending_key(extsk) == Encode(hrp_sapling_extended_spending_key, extsk)
decode_extended_spending_key(str) == Decode(hrp_sapling_extended_spending_key, "extsk", str)
encode_extended_full_viewing_key(extfvk) ==
    Encode(hrp_sapling_extended_full_viewing_key, extfvk)
decode_extended_full_viewing_key(str) ==
    Decode(hrp_sapling_extended_full_viewing_key, "extfvk", str)
encode_payment_address(addr) == Encode(hrp_sapling_payment_address, addr)

\* Variant: the address of account 0 whatever the account index
derive_shielded_address_from_seed_Account0(seed, account_index) ==
    encode_payment_address(default_address(spending_key(seed, 0)))

\* lib.rs 339-345
derive_shielded_address_from_seed(seed, account_index) ==
    encode_payment_address(default_address(spending_key(seed, account_index)))

\* lib.rs 326-335
DeriveShieldedAddressFromSeed(seed, account_index) ==
    IF account_index < 0 THEN Query(Err, "args")
    ELSE Query(Ok(derive_shielded_address_from_seed(seed, account_index)), "done")

\* lib.rs 358-378
DeriveShieldedAddressFromViewingKey(extfvk) ==
    LET d == decode_extended_full_viewing_key(extfvk) IN
    IF ~d.ok \/ ~d.some THEN Query(Err, "args")
    ELSE Query(Ok(encode_payment_address(default_address(d.key))), "done")

\* lib.rs 389-406
DeriveExtendedFullViewingKey(extsk) ==
    LET d == decode_extended_spending_key(extsk) IN
    IF ~d.ok \/ ~d.some THEN Query(Err, "args")
    ELSE Query(Ok(encode_extended_full_viewing_key(ExtendedFullViewingKeyFrom(d.key))),
               "done")

\* a call that returns a new C string or null: the string is the host's,
\* `last` keeps what was passed in and what the string says
ReturnString(op, seed, account, input, r) ==
    /\ Cardinality(heap) < MaxAllocs
    /\ heap' = IF r.exc.ok THEN heap \cup {StringAlloc(NewPtr(heap))} ELSE heap
    /\ last' = [op |-> op, arg |-> account, before |-> 0, stage |-> r.stage,
                tx |-> NoRaw, ret |-> IF r.exc.ok THEN NewPtr(heap) ELSE 0,
                seed |-> seed, input |-> input,
                text |-> IF r.exc.ok THEN r.exc.value ELSE NoText]
    /\ UNCHANGED <<cache, utxos, ledger, calls, checkpoint>>

\* lib.rs 318-337
zcashlc_derive_shielded_address_from_seed(seed, account_index) ==
    ReturnString("address_from_seed", seed, account_index, NoText,
                 DeriveShieldedAddressFromSeed(seed, account_index))

\* lib.rs 352-381
zcashlc_derive_shielded_address_from_viewing_key(extfvk) ==
    ReturnString("address_from_viewing_key", 0, 0, extfvk,
                 DeriveShieldedAddressFromViewingKey(extfvk))

\* lib.rs 383-409
zcashlc_derive_extended_full_viewing_key(extsk) ==
    ReturnString("full_viewing_key", 0, 0, extsk, DeriveExtendedFullViewingKey(extsk))

\* ------------------------------------- construct-and-commit calls in flight
\* Variant: the notes a call in flight has selected are set aside, so that no
\* other call selects them
CreateBuild_Locked(l, account, value) ==
    LET ah == get_target_and_anchor_heights(l) IN
    IF ~ah.some THEN [ok |-> FALSE, stage |-> "anchor", tx |-> NoRaw]
    ELSE LET target_value == value + DEFAULT_FEE
             held == UNION {calls[q].tx.spends :
                               q \in {c \in Callers : calls[c].stage = "built"}}
             sel == SelectPrefix({n \in SpendableNotes(l, ah.pair[2]) : n.nf \notin held},
                                 {}, target_value)
         IN IF SumValues(sel) < target_value
            THEN [ok |-> FALSE, stage |-> "funds", tx |-> NoRaw]
            ELSE [ok |-> TRUE, stage |-> "built",
                  tx |-> [inputs |-> {}, spends |-> {n.nf : n \in sel},
                          outs |-> <<value>>, height |-> ah.pair[1],
                          branch |-> ah.pair[1]]]

\* The first part of create_spend_to_address: anchor, note selection, build
CreateBuild(l, account, value) ==
    LET ah == get_target_and_anchor_heights(l) IN
    IF ~ah.some THEN [ok |-> FALSE, stage |-> "anchor", tx |-> NoRaw]
    ELSE LET target_value == value + DEFAULT_FEE
             sel == select_spendable_notes(l, ah.pair[2], target_value)
         IN IF SumValues(sel) < target_value
            THEN [ok |-> FALSE, stage |-> "funds", tx |-> NoRaw]
            ELSE [ok |-> TRUE, stage |-> "built",
                  tx |-> [inputs |-> {}, spends |-> {n.nf : n \in sel},
                          outs |-> <<value>>, height |-> ah.pair[1],
                          branch |-> ah.pair[1]]]

\* Caller p enters zcashlc_create_to_address and runs it up to the built
\* transaction; nothing is written, so another caller may run meanwhile
CreateSelectAndBuild(p, value) ==
    LET r == CreateBuild(ledger, 0, value) IN
    /\ calls[p] = Idle
    /\ calls' = IF r.ok
                THEN [calls EXCEPT ![p] = [stage |-> "built", account |-> 0,
                                           value |-> value, tx |-> r.tx]]
                ELSE calls
    /\ last' = [op |-> "build", arg |-> value, before |-> Watermark(ledger),
                stage |-> r.stage, tx |-> r.tx, ret |-> IF r.ok THEN 0 ELSE -1]
    /\ UNCHANGED <<cache, utxos, ledger, heap, checkpoint>>

RaceFaults == {"none", "insert_sent_note"}

\* Caller p runs the commit unit of its built transaction and returns
CreateCommit(p, fault) ==
    LET c == calls[p]
        done == transactionally(ledger,
                   CommitSteps(ledger, c.tx, c.account, c.value, fault))
    IN /\ c.stage = "built"
       /\ CreatedCount(ledger) < MaxTx
       /\ ledger' = done.ledger
       /\ calls' = [calls EXCEPT ![p] = Idle]
       /\ last' = [op |-> "create", arg |-> c.value, before |-> Watermark(ledger),
                   stage |-> IF done.ok THEN "done" ELSE "commit", tx |-> c.tx,
                   ret |-> unwrap_exc_or(IF done.ok THEN Ok(done.ref) ELSE Err, -1)]
       /\ UNCHANGED <<cache, utxos, heap, checkpoint>>

\* --------------------------------------------------- the host's writes
\* `last` describes a call of the core only until the host writes again
HostWrite == [op |-> "host", arg |-> 0, before |-> 0, stage |-> "", tx |-> NoRaw, ret |-> 0]

\* The host stores a downloaded compact block
CachePut(h, x, p) ==
    /\ cache[h] = NoBlock
    /\ cache' = [cache EXCEPT ![h] = [hash |-> x, prev |-> p]]
    /\ last' = HostWrite
    /\ UNCHANGED <<utxos, ledger, calls, heap, checkpoint>>

\* The host drops the cached blocks at and above h (its answer to a reorg)
CacheRewind(h) ==
    /\ \E k \in CachedHeights(cache) : k >= h
    /\ cache' = [k \in Heights |-> IF k >= h THEN NoBlock ELSE cache[k]]
    /\ last' = HostWrite
    /\ UNCHANGED <<utxos, ledger, calls, heap, checkpoint>>

\* The host records a transparent output of the address, confirmed at h
UtxoValues  == {1, DEFAULT_FEE + 1}
UtxoHeights == {SaplingActivationHeight, SaplingActivationHeight + ANCHOR_OFFSET}

UtxoPut(v, h) ==
    /\ Cardinality(utxos) < MaxUtxos
    /\ [value |-> v, height |-> h] \notin utxos
    /\ utxos' = utxos \cup {[value |-> v, height |-> h]}
    /\ last' = HostWrite
    /\ UNCHANGED <<cache, ledger, calls, heap, checkpoint>>

\* The host stores the next block of the chain it follows
CacheAppend(x) ==
    LET h == IF CachedHeights(cache) = {} THEN SaplingActivationHeight
             ELSE Max(CachedHeights(cache)) + 1
    IN /\ h \in Heights
       /\ CachePut(h, x, 1)

\* ----------------------------------------------------------- the system
Init ==
    /\ cache = [h \in Heights |-> NoBlock]
    /\ utxos = {}
    /\ ledger = EmptyLedger
    /\ last = [op |-> "none", arg |-> 0, before |-> 0, stage |-> "", tx |-> NoRaw, ret |-> 0]
    /\ calls = [p \in Callers |-> Idle]
    /\ heap = {}
    /\ checkpoint = NoCheckpoint

\* Validation and scanning against a cache the host fills and truncates
NextChain ==
    \/ \E h \in Heights, x \in Hashes, p \in Hashes : CachePut(h, x, p)
    \/ \E h \in Heights : CacheRewind(h)
    \/ \E f \in ValidateFaults : zcashlc_validate_combined_chain(f)
    \/ \E k \in 0..MaxHeight : zcashlc_scan_blocks("none", k)
    \/ zcashlc_scan_blocks("open", 0)

SpecChain == Init /\ [][NextChain]_vars

\* Scanning and rollback; neither reads a block's previous-hash, so the host
\* caches blocks of one previous-hash only
NextRewind ==
    \/ \E h \in Heights, x \in Hashes : CachePut(h, x, 1)
    \/ \E h \in Heights : CacheRewind(h)
    \/ \E k \in 0..MaxHeight : zcashlc_scan_blocks("none", k)
    \/ zcashlc_scan_blocks("open", 0)
    \/ \E h \in -1..MaxHeight, f \in RewindFaults : zcashlc_rewind_to_height(h, f)

SpecRewind == Init /\ [][NextRewind]_vars

\* Scanning and rollback of a Ledger that the host may give a checkpoint
CheckpointHeights == Heights
NextStart ==
    \/ \E h \in Heights, x \in Hashes : CachePut(h, x, 1)
    \/ \E h \in CheckpointHeights, x \in {"ok", "bad_hash"} :
          zcashlc_init_blocks_table(h, x, "none")
    \/ \E k \in 0..MaxHeight : zcashlc_scan_blocks("none", k)
    \/ \E h \in -1..MaxHeight, f \in RewindFaults : zcashlc_rewind_to_height(h, f)

SpecStart == Init /\ [][NextStart]_vars

\* Transaction construction on a Ledger that follows a gap-free cache
CreateValues == {-1, 1, NoteValue + 1}

NextTx ==
    \/ CacheAppend(1)
    \/ \E v \in UtxoValues, h \in UtxoHeights : UtxoPut(v, h)
    \/ zcashlc_scan_blocks("none", 0)
    \/ \E f \in BuildFaults : zcashlc_shield_funds(0, f)
    \/ zcashlc_shield_funds(-1, "none")
    \/ \E v \in CreateValues, f \in BuildFaults : zcashlc_create_to_address(0, v, f)
    \/ zcashlc_create_to_address(-1, 1, "none")

SpecTx == Init /\ [][NextTx]_vars

\* Every operation of the core that is given the Block Cache, next to the
\* host's writes
NextCore ==
    \/ CacheAppend(1)
    \/ \E v \in UtxoValues, h \in UtxoHeights : UtxoPut(v, h)
    \/ zcashlc_validate_combined_chain("none")
    \/ zcashlc_scan_blocks("none", 0)
    \/ \E h \in Heights : zcashlc_rewind_to_height(h, "none")
    \/ zcashlc_shield_funds(0, "none")
    \/ \E v \in CreateValues : zcashlc_create_to_address(0, v, "none")

SpecCore == Init /\ [][NextCore]_vars

\* Queries and argument checks on a Ledger that follows a gap-free cache
AccountArgs == {-1, 0}
AmountArgs  == {-1, 1, MAX_MONEY + 1}

NextBalance ==
    \/ \E x \in Hashes : CacheAppend(x)
    \/ zcashlc_scan_blocks("none", 0)
    \/ \E a \in AccountArgs, f \in QueryFaults \ {"anchor"} : zcashlc_get_balance(a, f)
    \/ \E a \in AccountArgs, f \in QueryFaults : zcashlc_get_verified_balance(a, f)
    \/ \E a \in AccountArgs \cup {1}, f \in {"none", "open"} : zcashlc_get_address(a, f)
    \/ \E s \in {0} \cup AllocIds : zcashlc_string_free(s)
    \/ \E a \in AccountArgs : zcashlc_shield_funds(a, "none")
    \/ \E a \in AccountArgs, v \in AmountArgs : zcashlc_create_to_address(a, v, "none")

SpecBalance == Init /\ [][NextBalance]_vars

\* Setting up a Ledger file and deriving keys
InitSetup ==
    /\ cache = [h \in Heights |-> NoBlock]
    /\ utxos = {}
    /\ ledger = FreshStore
    /\ last = [op |-> "none", arg |-> 0, before |-> 0, stage |-> "", tx |-> NoRaw, ret |-> 0]
    /\ calls = [p \in Callers |-> Idle]
    /\ heap = {}
    /\ checkpoint = NoCheckpoint

AccountCounts == -1..MaxAccounts
CapacityRets  == {"valid", "null"}
HeightArgs    == {-1, 0, SaplingActivationHeight, CanopyActivationHeight}
\* room the collected vector has beyond its length
Slack         == {0, 1}

\* the host releases a vector it owns, or null
HostFreesVector ==
    \/ zcashlc_vec_string_free(0, 0, 0)
    \/ \E a \in heap : a.kind = "vec" /\ zcashlc_vec_string_free(a.id, a.len, a.cap)

NextSetup ==
    \/ \E f \in InitDbFaults : zcashlc_init_data_database(f)
    \/ \E n \in AccountCounts, r \in CapacityRets, f \in {"none", "open"} :
          zcashlc_init_accounts_table(n, n, r, f)
    \/ \E n \in 1..MaxAccounts, k \in {"ok", "malformed"}, f \in {"none", "open"} :
          zcashlc_init_accounts_table_with_keys(n, k, f)
    \/ HostFreesVector
    \/ \E h \in HeightArgs, x \in HexArgs, f \in {"none", "open"} :
          zcashlc_init_blocks_table(h, x, f)
    \/ \E h \in HeightArgs : zcashlc_branch_id_for_height(h)

SpecSetup == InitSetup /\ [][NextSetup]_vars

\* Deriving keys and addresses.  The host passes the encoded spending key
\* of a seed and account index, the string the last call returned, or a
\* string that is no encoding, and releases the strings it was given; a
\* viewing key reaches it only as the string a call returned.
SpendingKeyStrings ==
    {encode_extended_spending_key(spending_key(sd, i)) :
        sd \in Seeds, i \in {a \in AccountIndices : a >= 0}}

InitDerive ==
    /\ cache = [h \in Heights |-> NoBlock]
    /\ utxos = {}
    /\ ledger = EmptyLedger
    /\ last = [op |-> "none", arg |-> 0, before |-> 0, stage |-> "", tx |-> NoRaw,
               ret |-> 0, seed |-> 0, input |-> NoText, text |-> NoText]
    /\ calls = [p \in Callers |-> Idle]
    /\ heap = {}
    /\ checkpoint = NoCheckpoint

\* the string the last call returned, if it returned one
LastText == IF "text" \in DOMAIN last THEN last.text ELSE NoText

HostFreesString ==
    \/ zcashlc_string_free(0)
    \/ \E a \in heap : a.kind = "string" /\ zcashlc_string_free(a.id)

NextDerive ==
    \/ \E sd \in Seeds, i \in AccountIndices :
          zcashlc_derive_shielded_address_from_seed(sd, i)
    \/ \E str \in SpendingKeyStrings \cup {Garbage, LastText} :
          zcashlc_derive_extended_full_viewing_key(str)
    \/ \E str \in SpendingKeyStrings \cup {Garbage, LastText} :
          zcashlc_derive_shielded_address_from_viewing_key(str)
    \/ HostFreesString

SpecDerive == InitDerive /\ [][NextDerive]_vars

\* Key vectors handed to the host and released by it
NextKeys ==
    \/ zcashlc_init_data_database("none")
    \/ \E n \in AccountCounts, k \in Slack, r \in CapacityRets, f \in {"none", "open"} :
          zcashlc_init_accounts_table(n, n + k, r, f)
    \/ \E n \in AccountCounts, k \in Slack, r \in CapacityRets :
          zcashlc_derive_extended_spending_keys(n, n + k, r)
    \/ \E n \in AccountCounts, k \in Slack, r \in CapacityRets :
          zcashlc_derive_extended_full_viewing_keys(n, n + k, r)
    \/ HostFreesVector

SpecKeys == InitSetup /\ [][NextKeys]_vars

\* Two callers inside zcashlc_create_to_address at the same time
RaceValues == {1}

NextRace ==
    \/ CacheAppend(1)
    \/ zcashlc_scan_blocks("none", 0)
    \/ \E p \in Callers, v \in RaceValues : CreateSelectAndBuild(p, v)
    \/ \E p \in Callers, f \in RaceFaults : CreateCommit(p, f)

SpecRace == Init /\ [][NextRace]_vars

(***************************************************************************)
(* Properties of the chain protocol                                        *)
(***************************************************************************)
\* height the validator and the scanner start above
StartHeight(l) == IF HasBlocks(l) THEN Watermark(l) ELSE SaplingActivationHeight - 1
CacheTip(c) == IF CachedHeights(c) = {} THEN 0 ELSE Max(CachedHeights(c))
\* heights above the start, below the cache's tip, that the cache lacks
MissingHeights(c, l) ==
    {h \in Heights : h > StartHeight(l) /\ h < CacheTip(c) /\ h \notin CachedHeights(c)}
\* hash of the block at height h of the combined chain, 0 when there is none
CombinedHash(c, l, h) ==
    IF HasBlocks(l) /\ h = Watermark(l) THEN l.blocks[h]
    ELSE IF h \in CachedHeights(c) /\ h > StartHeight(l) THEN c[h].hash
    ELSE 0
\* heights whose cached block declares a previous-hash that differs from the
\* hash of the block below it
MismatchHeights(c, l) ==
    {h \in CachedHeights(c) : /\ h > StartHeight(l)
                              /\ CombinedHash(c, l, h - 1) # 0
                              /\ c[h].prev # CombinedHash(c, l, h - 1)}
BreakHeights(c, l) == MissingHeights(c, l) \cup MismatchHeights(c, l)

\* C1: a zcashlc_scan_blocks call never lowers the scanned-height watermark
\* (so after successful call N it is >= what it was after call N-1), and a
\* step that lowers the watermark is a zcashlc_rewind_to_height call.
C1_WatermarkMonotonic ==
    [][/\ last'.op = "scan" => Watermark(ledger') >= Watermark(ledger)
       /\ Watermark(ledger') < Watermark(ledger) => last'.op = "rewind"]_vars

\* a second successful scan has raised the watermark above an earlier one
C1_Witness ==
    /\ last.op = "scan" /\ last.ret = 1
    /\ last.before >= SaplingActivationHeight
    /\ Watermark(ledger) > last.before

\* C2 as stated: whenever the cache lacks a height above the watermark,
\* zcashlc_scan_blocks returns 0 and the watermark after the call equals the
\* watermark before it.
C2_Original ==
    [][\A k \in 0..MaxHeight :
          (/\ last'.op = "scan"
           /\ MissingHeights(cache, ledger) # {}
           /\ zcashlc_scan_blocks("none", k))
             => (last'.ret = 0 /\ Watermark(ledger') = Watermark(ledger))]_vars

\* C2 amended: whenever the cache lacks a height above the watermark,
\* zcashlc_scan_blocks returns 0, and the watermark after the call is the
\* last height below the first missing one (blocks before the gap stay
\* scanned) unless the scan failed at an earlier block; it equals the
\* watermark before the call when the first missing height is right above it.
C2_GapRejected ==
    [][\A k \in 0..MaxHeight :
          (/\ last'.op = "scan"
           /\ MissingHeights(cache, ledger) # {}
           /\ zcashlc_scan_blocks("none", k))
             => LET gap == Min(MissingHeights(cache, ledger)) IN
                /\ last'.ret = 0
                /\ StartHeight(ledger') < gap
                /\ StartHeight(ledger') >= StartHeight(ledger)
                /\ (k = 0 \/ k >= gap) => StartHeight(ledger') = gap - 1
                /\ gap = StartHeight(ledger) + 1 => ledger' = ledger]_vars

\* a scan failed at a gap after it had scanned the blocks below the gap
C2_Witness ==
    /\ last.op = "scan" /\ last.ret = 0
    /\ MissingHeights(cache, ledger) # {}
    /\ Min(MissingHeights(cache, ledger)) = Watermark(ledger) + 1
    /\ Watermark(ledger) > last.before

\* C3 as stated: a height reported by zcashlc_validate_combined_chain is the
\* lowest height at which a cached block's declared previous-hash differs
\* from the hash of the block below it, and never any other height.
C3_Original ==
    (last.op = "validate" /\ last.ret > 0)
       => /\ MismatchHeights(cache, ledger) # {}
          /\ last.ret = Min(MismatchHeights(cache, ledger))

\* C3 amended: a height reported by zcashlc_validate_combined_chain is the
\* lowest height above the Ledger's tip at which continuity breaks: either
\* the cached block's declared previous-hash differs from the hash of the
\* block below it, or the cache has no block at that height although it has
\* blocks above it; no other height is ever reported.
C3_LowestBreak ==
    (last.op = "validate" /\ last.ret > 0)
       => /\ BreakHeights(cache, ledger) # {}
          /\ last.ret = Min(BreakHeights(cache, ledger))

\* the block right above the Ledger's tip declares a previous-hash other than
\* the Ledger's stored hash of the tip, and that height is reported
C3_Witness ==
    /\ last.op = "validate"
    /\ HasBlocks(ledger)
    /\ last.ret = Watermark(ledger) + 1
    /\ last.ret \in CachedHeights(cache)
    /\ cache[last.ret].prev # ledger.blocks[Watermark(ledger)]
    /\ Watermark(ledger) \in CachedHeights(cache)
    /\ cache[last.ret].prev = cache[Watermark(ledger)].hash

\* what zcashlc_validate_combined_chain has to return
ExpectedValidateReturn(c, l, fault) ==
    IF fault # "none" THEN 0
    ELSE IF BreakHeights(c, l) = {} THEN -1
    ELSE Min(BreakHeights(c, l))

\* C4: zcashlc_validate_combined_chain returns -1 exactly when the combined
\* chain is continuous up to the cache tip, the height of the break exactly
\* when continuity breaks, and 0 exactly when a store cannot be opened, the
\* Ledger tip cannot be read or validation fails otherwise; the three values
\* are pairwise different.
C4_ReturnValues ==
    [][\A f \in ValidateFaults :
          (last'.op = "validate" /\ zcashlc_validate_combined_chain(f))
             => /\ last'.ret = ExpectedValidateReturn(cache, ledger, f)
                /\ (last'.ret = -1) = (f = "none" /\ BreakHeights(cache, ledger) = {})
                /\ (last'.ret = 0) = (f # "none")
                /\ (last'.ret > 0) = (f = "none" /\ BreakHeights(cache, ledger) # {})]_vars

\* validation failed for a reason other than continuity although the cache
\* holds a break above the Ledger's tip
C4_Witness ==
    /\ last.op = "validate" /\ last.ret = 0
    /\ HasBlocks(ledger)
    /\ BreakHeights(cache, ledger) # {}

\* C5: a zcashlc_validate_combined_chain call changes neither the Block Cache
\* nor the Wallet Ledger (nor the transparent outputs), whatever it returns.
C5_ValidateReadOnly ==
    [][last'.op = "validate" => UNCHANGED <<cache, ledger, utxos>>]_vars

\* a break was reported above a Ledger that holds a note
C5_Witness ==
    /\ last.op = "validate" /\ last.ret = Watermark(ledger) + 1
    /\ last.ret \in MismatchHeights(cache, ledger)
    /\ ledger.notes # {}

(***************************************************************************)
(* Properties of the rollback                                              *)
(***************************************************************************)
\* C6: zcashlc_rewind_to_height to a height at or above the Ledger's last
\* scanned height returns 1 and changes nothing in the Ledger.
C6_RewindNoop ==
    [][\A h \in 0..MaxHeight :
          (/\ last'.op = "rewind" /\ last'.arg = h
           /\ h >= Watermark(ledger)
           /\ zcashlc_rewind_to_height(h, "none"))
             => (last'.ret = 1 /\ ledger' = ledger)]_vars

\* a rewind to the watermark or above was answered with success on a Ledger
\* that holds blocks, notes and a spent marker
C6_Witness ==
    /\ last.op = "rewind" /\ last.ret = 1
    /\ last.before >= SaplingActivationHeight
    /\ last.arg >= last.before
    /\ \E n \in ledger.notes : n.spent # 0

\* the Ledger l2 is the Ledger l rewound to height h
RewoundTo(l, l2, h) ==
    /\ Watermark(l2) = h
    /\ \A k \in Heights : l2.blocks[k] = IF k > h THEN 0 ELSE l.blocks[k]
    /\ \A n \in l2.notes :
          /\ n.height <= h
          /\ n.spent # 0 => \E t \in l2.txs : t.ref = n.spent /\ t.block <= h
    /\ \A w \in l2.wits : w[1] <= h /\ w[2] <= h
    /\ {n.nf : n \in l2.notes} = {n.nf : n \in {m \in l.notes : m.height <= h}}
    /\ \A n \in l.notes :
          (n.height <= h /\ ~(\E t \in l.txs : t.ref = n.spent /\ t.block > h))
             => n \in l2.notes
    /\ \A n \in l.notes :
          (n.height <= h /\ \E t \in l.txs : t.ref = n.spent /\ t.block > h)
             => [n EXCEPT !.spent = 0] \in l2.notes

NewTxs(l, l2)  == l2.txs \ l.txs
NewSent(l, l2) == l2.sent \ l.sent

\* C8: a successful shield_funds call spends transparent outputs of the host's
\* set whose values sum to V > DEFAULT_FEE, builds a transaction with exactly one
\* shielded output of value V - DEFAULT_FEE and no shielded spend, leaves
\* every note as it was, and adds to the Ledger exactly one transaction
\* record (the returned one) and exactly one sent-note record of amount
\* V - DEFAULT_FEE.
C8_ShieldOutput ==
    [][(last'.op = "shield" /\ last'.ret >= 0)
          => LET V == SumValues(last'.tx.inputs) IN
             /\ last'.tx.inputs # {} /\ last'.tx.inputs \subseteq utxos
             /\ V > DEFAULT_FEE
             /\ last'.tx.outs = <<V - DEFAULT_FEE>>
             /\ last'.tx.spends = {}
             /\ ledger'.notes = ledger.notes
             /\ Cardinality(NewTxs(ledger, ledger')) = 1
             /\ \A t \in NewTxs(ledger, ledger') : t.ref = last'.ret /\ t.created /\ t.raw
             /\ ledger.txs \subseteq ledger'.txs
             /\ NewSent(ledger, ledger') =
                   {[tx |-> last'.ret, idx |-> 0, account |-> last'.arg,
                     value |-> V - DEFAULT_FEE]}
             /\ ledger.sent \subseteq ledger'.sent]_vars

\* two transparent outputs were shielded together
C8_Witness ==
    /\ last.op = "shield" /\ last.ret >= 0
    /\ Cardinality(last.tx.inputs) = 2
    /\ \E s \in ledger.sent : s.tx = last.ret /\ s.value = SumValues(last.tx.inputs) - DEFAULT_FEE

\* C9: when the Ledger has an anchor and the selected transparent outputs sum
\* to DEFAULT_FEE or less (the empty selection included), shield_funds returns
\* -1 without building a transaction and without any Ledger write; the call
\* stops at the funds check unless it already failed on its arguments.
C9_InsufficientFunds ==
    [][\A a \in {-1, 0}, f \in BuildFaults :
          (/\ last'.op = "shield" /\ last'.arg = a
           /\ HasBlocks(ledger)
           /\ SumValues(SelectedUtxos(utxos, get_target_and_anchor_heights(ledger).pair))
                 <= DEFAULT_FEE
           /\ zcashlc_shield_funds(a, f))
             => /\ last'.ret = -1
                /\ last'.tx = NoRaw
                /\ last'.stage \in {"open", "args", "funds"}
                /\ (a >= 0 /\ f # "open") => last'.stage = "funds"
                /\ ledger' = ledger]_vars

\* shield_funds stopped at the funds check with a selection worth exactly
\* the fee
C9_Witness ==
    /\ last.op = "shield" /\ last.ret = -1 /\ last.stage = "funds"
    /\ HasBlocks(ledger)
    /\ SumValues(SelectedUtxos(utxos, get_target_and_anchor_heights(ledger).pair))
          = DEFAULT_FEE

\* every spent marker and every sent-note record has its transaction record
CommitConsistent(l) ==
    /\ \A n \in l.notes : n.spent # 0 => \E t \in l.txs : t.ref = n.spent
    /\ \A x \in l.sent : \E t \in l.txs : t.ref = x.tx

\* C10: a shield_funds or zcashlc_create_to_address call that fails leaves the
\* Ledger identical to the Ledger before the call, whichever commit step
\* failed; and in every reachable state each spent marker and each sent-note
\* record refers to a transaction that has a record.
C10_CommitAllOrNothing ==
    [][/\ (last'.op \in {"shield", "create"} /\ last'.ret = -1) => ledger' = ledger
       /\ CommitConsistent(ledger')]_vars

\* a built transaction failed in the commit after an earlier one was committed
C10_Witness ==
    /\ last.op \in {"shield", "create"} /\ last.ret = -1 /\ last.stage = "commit"
    /\ last.tx # NoRaw
    /\ CreatedCount(ledger) = 1

AnchorOf(l) == Max({Watermark(l) + 1 - ANCHOR_OFFSET, MinHeight(l)})
UnspentNotes(l) == {n \in l.notes : n.spent = 0}

\* C12: zcashlc_get_balance returns the sum of all unspent scanned notes,
\* whatever their height; zcashlc_get_verified_balance returns the sum of
\* the unspent notes received at or below the anchor height derived from the
\* Ledger, so a note above the anchor never contributes to it.
C12_VerifiedVsTotal ==
    [][/\ (last'.op = "balance" /\ last'.ret >= 0)
             => last'.ret = SumValues(UnspentNotes(ledger))
       /\ (last'.op = "verified_balance" /\ last'.ret >= 0)
             => /\ HasBlocks(ledger)
                /\ last'.ret = SumValues({n \in UnspentNotes(ledger) :
                                             n.height <= AnchorOf(ledger)})
                /\ last'.ret <= SumValues(UnspentNotes(ledger))]_vars

\* the verified balance counts an older note and leaves out an unspent note
\* received above the anchor
C12_Witness ==
    /\ last.op = "verified_balance" /\ last.ret > 0
    /\ \E n \in UnspentNotes(ledger) : n.height > AnchorOf(ledger)
    /\ last.ret < SumValues(UnspentNotes(ledger))

\* C13: on a Ledger without a scanned block zcashlc_get_verified_balance and
\* shield_funds return -1 and write nothing; a call with valid arguments
\* stops at the missing anchor (scan required) and never answers with a zero
\* balance or an empty selection.
C13_ScanRequired ==
    [][(~HasBlocks(ledger) /\ last'.op \in {"verified_balance", "shield"})
          => /\ last'.ret = -1
             /\ ledger' = ledger
             /\ last'.tx = NoRaw
             /\ last'.stage \in {"open", "args", "anchor"}
             /\ \A a \in AccountArgs :
                   (a >= 0 /\ (\/ zcashlc_get_verified_balance(a, "none")
                               \/ zcashlc_shield_funds(a, "none")))
                      => last'.stage = "anchor"]_vars

\* the verified balance was asked for while blocks were cached but none was
\* scanned, and the call stopped at the missing anchor
C13_Witness ==
    /\ last.op = "verified_balance" /\ last.arg >= 0
    /\ last.stage = "anchor" /\ last.ret = -1
    /\ ~HasBlocks(ledger)
    /\ CachedHeights(cache) # {}

\* C14: when zcashlc_create_to_address or zcashlc_shield_funds returns r >= 0,
\* the Ledger holds at that moment a transaction record with reference r and
\* the raw transaction, written by this call; when they return -1 the
\* transaction records are those from before the call.
C14_ReturnedRefPersisted ==
    [][last'.op \in {"shield", "create"}
          => IF last'.ret >= 0
             THEN \E t \in ledger'.txs :
                     t.ref = last'.ret /\ t.raw /\ t.created /\ t \notin ledger.txs
             ELSE last'.ret = -1 /\ ledger'.txs = ledger.txs]_vars

\* zcashlc_create_to_address returned the reference of a record it wrote
C14_Witness ==
    /\ last.op = "create" /\ last.ret >= 0
    /\ \E t \in ledger.txs : t.ref = last.ret /\ t.raw
    /\ \E n \in ledger.notes : n.spent = last.ret

\* what a rejected argument leaves behind: the failure value, no query, no
\* built transaction, no Ledger write and no allocation
Rejected(failure) ==
    /\ last'.ret = failure
    /\ last'.stage = "args"
    /\ last'.tx = NoRaw
    /\ ledger' = ledger
    /\ heap' = heap

\* C15: a negative account index passed to zcashlc_get_address,
\* zcashlc_get_balance, zcashlc_get_verified_balance, zcashlc_create_to_address
\* or zcashlc_shield_funds, and a negative or out-of-range amount passed to
\* zcashlc_create_to_address, is rejected with the failure value (null, -1)
\* before any query, building or Ledger write, once the store is open.
C15_NegativeArgsRejected ==
    [][/\ \A a \in {x \in AccountArgs : x < 0} :
            /\ (last'.op = "address" /\ zcashlc_get_address(a, "none")) => Rejected(0)
            /\ (last'.op = "balance" /\ zcashlc_get_balance(a, "none")) => Rejected(-1)
            /\ (last'.op = "verified_balance" /\ zcashlc_get_verified_balance(a, "none"))
                  => Rejected(-1)
            /\ (last'.op = "shield" /\ zcashlc_shield_funds(a, "none")) => Rejected(-1)
       /\ \A a \in AccountArgs, v \in AmountArgs :
            (/\ last'.op = "create"
             /\ a < 0 \/ v < 0 \/ v > MAX_MONEY
             /\ zcashlc_create_to_address(a, v, "none")) => Rejected(-1)]_vars

\* an amount above MAX_MONEY was rejected although the account had a
\* spendable note
C15_Witness ==
    /\ last.op = "create" /\ last.arg > MAX_MONEY
    /\ last.stage = "args" /\ last.ret = -1
    /\ HasBlocks(ledger)
    /\ SpendableNotes(ledger, AnchorOf(ledger)) # {}

\* C16: a negative height passed to zcashlc_init_blocks_table or
\* zcashlc_branch_id_for_height is rejected as an error: the failure value
\* (0, -1) is returned and no checkpoint is written to the Ledger; the height
\* is never read as a large non-negative one.
C16_NegativeHeightRejected ==
    [][\A h \in {x \in HeightArgs : x < 0} :
         /\ \A x \in HexArgs, f \in {"none", "open"} :
              (last'.op = "init_blocks" /\ zcashlc_init_blocks_table(h, x, f))
                 => (last'.ret = 0 /\ ledger' = ledger)
         /\ (last'.op = "branch_id" /\ zcashlc_branch_id_for_height(h))
                 => last'.ret = -1]_vars

\* height -1 was accepted by zcashlc_init_blocks_table and the checkpoint
\* stands in the Ledger at height 2^32 - 1
C16_Witness ==
    /\ last.op = "init_blocks" /\ last.arg < 0 /\ last.ret = 1
    /\ \E c \in ledger.far : c.height = [top |-> 1, low |-> I32Max]

\* C17: a fallible exported operation returns its failure value whenever an
\* internal step fails; zcashlc_init_data_database returns 1 only when both
\* opening the Ledger and initialising its structure succeeded, and 0 when
\* either of them failed.
C17_InitFailureReported ==
    [][\A f \in InitDbFaults :
         (last'.op = "init_db" /\ zcashlc_init_data_database(f))
            => /\ (last'.ret = 1) <=> (f = "none")
               /\ (f # "none") => (last'.ret = 0)]_vars

\* initialising the structure failed, the Ledger has no structure, and the
\* call returned 1
C17_Witness ==
    /\ last.op = "init_db" /\ last.stage = "init" /\ last.ret = 1
    /\ ~ledger.schema

\* the allocations a step added to those the host has to release
Handed == heap' \ heap

\* C18: a successful zcashlc_init_accounts_table,
\* zcashlc_derive_extended_spending_keys or
\* zcashlc_derive_extended_full_viewing_keys with accounts = n hands the host
\* one owned buffer of exactly n strings with capacity >= n; a failing call
\* returns null and leaves no allocation outstanding; one
\* zcashlc_vec_string_free with the same pointer, length and capacity
\* releases every string and the buffer, and releasing null does nothing.
C18_KeyVectorOwnership ==
    [][/\ (last'.op \in {"init_accounts", "derive_sk", "derive_fvk"} /\ last'.ret # 0)
            => \E a \in heap' :
                  /\ Handed = {a} /\ heap \subseteq heap'
                  /\ a.kind = "vec" /\ a.id = last'.ret
                  /\ a.len = last'.arg /\ a.cap >= last'.arg
       /\ (last'.op \in {"init_accounts", "derive_sk", "derive_fvk"} /\ last'.ret = 0)
            => heap' = heap
       /\ (last'.op = "vec_string_free" /\ last'.arg = 0) => heap' = heap
       /\ (last'.op = "vec_string_free" /\ last'.arg # 0)
            => /\ \A a \in heap' : a.id # last'.arg
               /\ heap' = {a \in heap : a.id # last'.arg}]_vars

\* a derive call that was given no place for the capacity returned null and
\* left the strings it had released from their CStrings behind
C18_Witness ==
    /\ last.op \in {"derive_sk", "derive_fvk"} /\ last.arg > 0
    /\ last.ret = 0 /\ last.stage = "panic"
    /\ \E a \in heap : a.kind = "stranded" /\ a.len = last.arg

\* C19: a panic raised inside an exported operation (the unwrap on a
\* malformed hash or tree hex string in zcashlc_init_blocks_table, on a
\* malformed viewing key in zcashlc_init_accounts_table_with_keys, ...) is
\* turned into the operation's failure value and the Ledger is exactly as it
\* was before the call.
C19_PanicLeavesLedger ==
    [][(/\ last'.op \in {"init_blocks", "init_accounts_keys", "init_accounts"}
        /\ last'.stage = "panic")
          => (last'.ret = 0 /\ ledger' = ledger)]_vars

\* zcashlc_init_accounts_table panicked and returned null, and the accounts
\* it was asked for stand in the Ledger
C19_Witness ==
    /\ last.op = "init_accounts" /\ last.stage = "panic" /\ last.ret = 0
    /\ last.arg > 0 /\ ledger.accounts = last.arg

(***************************************************************************)
(* Calls in flight                                                         *)
(***************************************************************************)
\* C20: the core does not lock notes between input selection and commit: a
\* call selects among all spendable notes of the Ledger whatever another call
\* in flight has selected, and writes nothing while it builds, so that two
\* interleaved calls for the same account can both hold a built transaction
\* spending the same unspent note.
C20_NoNoteLocking ==
    [][\A p \in Callers, v \in RaceValues :
          (last'.op = "build" /\ last'.ret = 0 /\ CreateSelectAndBuild(p, v))
             => /\ ledger' = ledger
                /\ calls'[p].stage = "built"
                /\ calls'[p].tx.spends =
                      {n.nf : n \in select_spendable_notes(ledger, AnchorOf(ledger),
                                                          v + DEFAULT_FEE)}
                /\ \A q \in Callers \ {p} : calls'[q] = calls[q]]_vars

\* both callers hold a built transaction that spends the same note, and the
\* note is unspent in the Ledger
C20_Witness ==
    /\ \A p \in Callers : calls[p].stage = "built"
    /\ \E n \in ledger.notes :
          /\ n.spent = 0
          /\ \A p \in Callers : n.nf \in calls[p].tx.spends

Processed == ScannedHeights(ledger') \ ScannedHeights(ledger)

\* C22 as stated: on a fresh Ledger the first block zcashlc_scan_blocks
\* processes is the one at the activation height; once
\* zcashlc_init_blocks_table was given the checkpoint height C, the first
\* block processed is the one at C + 1 and no block at or below C is ever
\* scanned.
C22_Original ==
    [][(last'.op = "scan" /\ Processed # {})
         => /\ (~checkpoint.some /\ ~HasBlocks(ledger))
                  => Min(Processed) = SaplingActivationHeight
            /\ checkpoint.some => \A h \in Processed : h > checkpoint.height
            /\ (checkpoint.some /\ ScannedHeights(ledger) = {checkpoint.height})
                  => Min(Processed) = checkpoint.height + 1]_vars

\* C22: a scan of a fresh Ledger starts with the block at the activation
\* height; while the checkpoint of height C is in the Ledger (it has not been
\* rewound below C), the first block processed is the one at C + 1 and no
\* block at or below C is scanned.
C22_ScanStart ==
    [][(last'.op = "scan" /\ Processed # {})
         => /\ (~checkpoint.some /\ ~HasBlocks(ledger))
                  => Min(Processed) = SaplingActivationHeight
            /\ (checkpoint.some /\ ledger.blocks[checkpoint.height] # 0)
                  => \A h \in Processed : h > checkpoint.height
            /\ (checkpoint.some /\ ScannedHeights(ledger) = {checkpoint.height})
                  => Min(Processed) = checkpoint.height + 1]_vars

\* a scan went on from a checkpoint above the activation height and left a
\* cached block below the checkpoint alone
C22_Witness ==
    /\ last.op = "scan" /\ last.ret = 1
    /\ checkpoint.some /\ checkpoint.height > SaplingActivationHeight
    /\ last.before = checkpoint.height
    /\ MinHeight(ledger) = checkpoint.height
    /\ Watermark(ledger) > checkpoint.height
    /\ \E h \in CachedHeights(cache) : h < checkpoint.height

(***************************************************************************)
(* The Block Cache is the host's                                           *)
(***************************************************************************)
\* C23: no operation of the core (validate, scan, rewind, create-to-address,
\* shield-funds) changes the contents of the Block Cache, blocks or
\* transparent outputs.
C23_CacheReadOnly ==
    [][last'.op \in {"validate", "scan", "rewind", "create", "shield"}
          => (cache' = cache /\ utxos' = utxos)]_vars

\* a scan applied cached blocks and the blocks are in the cache as before
C23_Witness ==
    /\ last.op = "scan" /\ last.ret = 1
    /\ Watermark(ledger) > last.before
    /\ \A h \in ScannedHeights(ledger) : cache[h].hash = ledger.blocks[h]
    /\ utxos # {}

\* the Ledger after the cached blocks from + 1 .. to were applied to l, each
\* as one whole unit of work
RECURSIVE Replay(_, _, _, _)
Replay(l, c, from, to) ==
    IF from >= to THEN l
    ELSE Replay(ApplyBlock(l, from + 1, c[from + 1]), c, from + 1, to)

\* C24: a scan moves the watermark in steps of +1, each step being a block
\* fully applied (notes inserted, witnesses updated, spends marked); after a
\* scan that fails part-way the watermark is the height of the last fully
\* applied block and the Ledger holds no effect of a later block.
C24_WatermarkStepwise ==
    [][last'.op = "scan"
         => LET from == StartHeight(ledger)
                to   == StartHeight(ledger')
            IN /\ to >= from
               /\ \A h \in Heights : (h > from /\ h <= to)
                     => (h \in CachedHeights(cache) /\ ledger'.blocks[h] = cache[h].hash)
               /\ ledger' = Replay(ledger, cache, from, to)
               /\ \A n \in ledger'.notes : n.height <= to
               /\ \A w \in ledger'.wits : w[2] <= to
               /\ \A t \in ledger'.txs : t.block <= to
               /\ \A h \in Heights : h > to => ledger'.blocks[h] = 0]_vars

\* a scan failed in the store at a block that pays the account, after it had
\* applied a block: the watermark is below the failing block and the note of
\* the failing block is not in the Ledger
C24_Witness ==
    /\ last.op = "scan" /\ last.ret = 0
    /\ Watermark(ledger) > last.before
    /\ Watermark(ledger) < MaxHeight
    /\ cache[Watermark(ledger) + 1].hash = 1
    /\ \A n \in ledger.notes : n.height <= Watermark(ledger)
    /\ \E n \in ledger.notes : n.height = Watermark(ledger)

C26_UtxosAtOrBelowAnchor ==
    [][(last'.op = "shield" /\ last'.ret >= 0)
          => LET anchor_height == get_target_and_anchor_heights(ledger).pair[2]
             IN /\ last'.tx.inputs = {u \in utxos : u.height <= anchor_height}
                /\ \A u \in last'.tx.inputs : u.height <= anchor_height]_vars

\* a transparent output confirmed above the anchor height was shielded
C26_Witness ==
    /\ last.op = "shield" /\ last.ret >= 0
    /\ \E u \in last.tx.inputs : u.height > AnchorOf(ledger)
    /\ \E t \in ledger.txs : t.ref = last.ret /\ t.created

\* C27: shield_funds uses one height throughout: the height up to which it
\* takes confirmed transparent outputs, the height it gives the transaction
\* builder and the height whose consensus branch id it passes to build are
\* the same.
C27_OneHeight ==
    [][(last'.op = "shield" /\ last'.ret >= 0)
          => /\ last'.tx.branch = last'.tx.height
             /\ last'.tx.inputs = get_confirmed_utxos_for_address(utxos, last'.tx.height)]_vars

\* a transaction was built for a height below the height of one of the
\* transparent outputs it spends
C27_Witness ==
    /\ last.op = "shield" /\ last.ret >= 0
    /\ last.tx.branch = last.tx.height
    /\ \E u \in last.tx.inputs : u.height > last.tx.height

(***************************************************************************)
(* Sequential construct-and-commit calls                                   *)
(***************************************************************************)
\* the nullifiers of the notes the Ledger has marked spent
SpentNullifiers(l) == {n.nf : n \in {m \in l.notes : m.spent # 0}}

\* C28: in a sequence of construct-and-commit calls that do not overlap,
\* every note is marked spent under at most one transaction reference: a call
\* never selects a note that is marked spent, it leaves the marked notes as
\* they are, and when it succeeds the notes it selected are marked under the
\* reference it returns.
C28_NoteSpentOnce ==
    [][last'.op \in {"create", "shield"}
         => /\ last'.tx.spends \cap SpentNullifiers(ledger) = {}
            /\ \A n \in ledger.notes : n.spent # 0 => n \in ledger'.notes
            /\ last'.ret >= 0
                  => \A n \in ledger'.notes :
                        /\ n.nf \in last'.tx.spends => n.spent = last'.ret
                        /\ n.spent = last'.ret => n.nf \in last'.tx.spends
            /\ last'.ret < 0 => ledger'.notes = ledger.notes]_vars

\* a second call has spent a second note: two notes are marked, each under
\* the reference of its own created transaction
C28_Witness ==
    /\ last.op = "create" /\ last.ret >= 0
    /\ \E n1, n2 \in ledger.notes :
          /\ n1.spent = last.ret
          /\ n2.spent # 0 /\ n2.spent # last.ret
          /\ \E t \in ledger.txs : t.ref = n2.spent /\ t.created

\* C29: after a successful shield_funds call, a second shield_funds call made
\* before the recorded transparent outputs change selects none of the outputs
\* the first one used, so that no output is an input of two committed
\* transactions.
C29_UtxoUsedOnce ==
    [][(/\ last'.op = "shield" /\ last'.ret >= 0
        /\ last.op = "shield" /\ last.ret >= 0
        /\ utxos' = utxos)
         => last'.tx.inputs \cap last.tx.inputs = {}]_vars

\* two committed transactions, both without a shielded spend and both paying
\* the whole of the recorded outputs less the fee: the second shield_funds
\* call has used the outputs of the first
C29_Witness ==
    /\ last.op = "shield" /\ last.ret = CreatedRef(2)
    /\ last.tx.inputs = utxos /\ utxos # {}
    /\ \A n \in ledger.notes : n.spent = 0
    /\ \A r \in {CreatedRef(1), CreatedRef(2)} :
          \E s \in ledger.sent :
             s.tx = r /\ s.value = AmountToShield(SumValues(utxos), DEFAULT_FEE)

(***************************************************************************)
(* Rollback to a height that is no block height                            *)
(***************************************************************************)
\* C30: zcashlc_rewind_to_height called with a negative height returns its
\* failure value 0 and leaves the Ledger as it was: no rewind is attempted.
C30_NegativeRewindRefused ==
    [][(last'.op = "rewind" /\ ~BlockHeightTryFrom(last'.arg).ok)
         => /\ last'.ret = 0
            /\ ledger' = ledger]_vars

\* a negative height was refused on a Ledger that holds scanned blocks
C30_Witness ==
    /\ last.op = "rewind" /\ last.arg < 0 /\ last.ret = 0
    /\ HasBlocks(ledger)
    /\ Watermark(ledger) > SaplingActivationHeight

(***************************************************************************)
(* The two balances of one Ledger state                                    *)
(***************************************************************************)
\* a balance query that ran to its end
Answered(l, op) == l.op = op /\ l.stage = "done"

\* C31: on a Ledger that has an anchor, the value zcashlc_get_verified_balance
\* returns for an account is not negative and not greater than the value
\* zcashlc_get_balance returns for the same account on the same Ledger state
\* (the two calls follow each other, in either order, and a query leaves the
\* Ledger as it is).
C31_VerifiedWithinTotal ==
    [][/\ (Answered(last', "verified_balance") /\ Answered(last, "balance")
           /\ last'.arg = last.arg)
             => /\ HasBlocks(ledger) /\ ledger' = ledger
                /\ 0 <= last'.ret /\ last'.ret <= last.ret
       /\ (Answered(last', "balance") /\ Answered(last, "verified_balance")
           /\ last'.arg = last.arg)
             => /\ HasBlocks(ledger) /\ ledger' = ledger
                /\ 0 <= last.ret /\ last.ret <= last'.ret]_vars

\* the verified-balance query has answered on a Ledger that holds a spent
\* note at or below the anchor and an unspent note above it: the value
\* returned is what is left at or below the anchor, less than the balance
C31_Witness ==
    /\ Answered(last, "verified_balance")
    /\ \E n \in ledger.notes : n.spent # 0 /\ n.height <= AnchorOf(ledger)
    /\ \E n \in ledger.notes : n.spent = 0 /\ n.height > AnchorOf(ledger)
    /\ last.ret = get_balance_at(ledger, last.arg, AnchorOf(ledger))
    /\ last.ret < get_balance(ledger, last.arg)

(***************************************************************************)
(* Value conservation of a shielding transaction                           *)
(***************************************************************************)
\* C32: in every transaction shield_funds builds, the transparent inputs are
\* exactly the selected outputs, there is a single shielded output, the
\* input values sum to the output value plus DEFAULT_FEE, and so nothing is
\* left for the change address.
C32_ZeroChange ==
    [][(last'.op = "shield" /\ last'.tx # NoRaw)
         => LET ah == get_target_and_anchor_heights(ledger) IN
            /\ ah.some
            /\ last'.tx.inputs = SelectedUtxos(utxos, ah.pair)
            /\ Len(last'.tx.outs) = 1
            /\ SumValues(last'.tx.inputs) = last'.tx.outs[1] + DEFAULT_FEE
            /\ BuilderChange(last'.tx) = 0]_vars

\* a committed shielding transaction of two inputs of different value, with
\* a positive output and no change
C32_Witness ==
    /\ last.op = "shield" /\ last.ret >= 0
    /\ \E u1, u2 \in last.tx.inputs : u1.value < u2.value
    /\ last.tx.outs[1] > 0
    /\ last.tx.outs[1] + DEFAULT_FEE = SumValues(last.tx.inputs)
    /\ BuilderChange(last.tx) = 0

====
